---- MODULE Spec2Model ----
(***************************************************************************)
(* Email verifier: lib/email-validator (src/unnamed/part_000).             *)
(*                                                                         *)
(* A JavaScript string is a sequence of one-character strings; a value     *)
(* passed where a string is expected is a record [type, val], so that a    *)
(* list element that is not a string can be written down.                  *)
(***************************************************************************)
EXTENDS Integers, Sequences, FiniteSets, TLC

VARIABLES
    mxCache,    \* the module-level Map domain -> value of checkMXRecord
    calls,      \* the invocations of validateEmailBatch, each with its locals and lookups
    requests,   \* the POST requests to /api/verify, each with its body and response
    resolver,   \* the resolver's outcome per domain, where it is taken to be stable
    legacy,     \* the invocation of the chunked validateEmailBatch (src/unnamed/part_001)
    client,     \* the page's state: rows, processing status, results (src/app/page.tsx)
    arg,        \* pure-function harness: the value handed to the function
    fn,         \* pure-function harness: "none" before the call, else the function applied
    ret         \* pure-function harness: what the function returned

pureVars == <<arg, fn, ret>>
batchVars == <<mxCache, calls, requests, resolver, legacy, client>>
otherVars == <<resolver, legacy, client, arg, fn, ret>>
vars == <<mxCache, calls, requests, resolver, legacy, client, arg, fn, ret>>

----------------------------------------------------------------------------
(* Strings *)

Min(S) == CHOOSE x \in S : \A y \in S : x <= y
Max(S) == CHOOSE x \in S : \A y \in S : x >= y

Str(s) == [type |-> "string", val |-> s]
Num == [type |-> "number", val |-> <<>>]
Null == [type |-> "null", val |-> <<>>]

\* String.prototype.toLowerCase, on the letters the inputs use
lowerChar(c) ==
    CASE c = "A" -> "a"
      [] c = "B" -> "b"
      [] c = "U" -> "u"
      [] OTHER -> c

toLowerCase(s) == [i \in 1..Len(s) |-> lowerChar(s[i])]

isSpace(c) == c = " "

\* String.prototype.trim
trim(s) ==
    LET keep == {i \in 1..Len(s) : ~isSpace(s[i])}
    IN  IF keep = {} THEN <<>> ELSE SubSeq(s, Min(keep), Max(keep))

includes(s, c) == \E i \in 1..Len(s) : s[i] = c

includesDotDot(s) == \E i \in 1..(Len(s) - 1) : s[i] = "." /\ s[i + 1] = "."

startsWith(s, c) == Len(s) > 0 /\ s[1] = c

endsWith(s, c) == Len(s) > 0 /\ s[Len(s)] = c

\* String.prototype.split on a one-character separator
RECURSIVE split(_, _)
split(s, sep) ==
    LET at == {i \in 1..Len(s) : s[i] = sep}
    IN  IF at = {} THEN <<s>>
        ELSE <<SubSeq(s, 1, Min(at) - 1)>> \o split(SubSeq(s, Min(at) + 1, Len(s)), sep)

\* Array.prototype.pop of a non-empty array: its last element
pop(a) == a[Len(a)]

\* /^[^\s@]+@[^\s@]+\.[^\s@]+$/.test(s)
plainChar(c) == ~isSpace(c) /\ c # "@"

SIMPLE_EMAIL_REGEX(s) ==
    \E a \in 1..Len(s) : \E k \in 1..Len(s) :
        /\ 1 < a /\ a + 1 < k /\ k < Len(s)
        /\ s[a] = "@" /\ s[k] = "."
        /\ \A i \in 1..Len(s) : (i # a /\ i # k) => plainChar(s[i])

----------------------------------------------------------------------------
(* validateEmailSyntax *)

MaxEmailLength == 254
MaxLocalLength == 64

Invalid(reason) == [valid |-> FALSE, reason |-> reason]

\* partChecks with the dot checks on local made before the checks on domain
partChecksLocalDotsFirst(local, domain, trimmed) ==
    IF Len(local) = 0 THEN Invalid("Empty local part (before @)")
    ELSE IF Len(local) > MaxLocalLength THEN Invalid("Local part too long (max 64 characters)")
    ELSE IF startsWith(local, ".") \/ endsWith(local, ".")
         THEN Invalid("Local part cannot start or end with a dot")
    ELSE IF includesDotDot(local) THEN Invalid("Local part cannot have consecutive dots")
    ELSE IF Len(domain) = 0 THEN Invalid("Empty domain part (after @)")
    ELSE IF ~includes(domain, ".") THEN Invalid("Domain missing TLD")
    ELSE IF Len(pop(split(domain, "."))) < 2 THEN Invalid("Invalid TLD")
    ELSE IF startsWith(domain, ".") \/ startsWith(domain, "-")
         THEN Invalid("Domain cannot start with dot or hyphen")
    ELSE IF endsWith(domain, "-") THEN Invalid("Domain cannot end with hyphen")
    ELSE IF ~SIMPLE_EMAIL_REGEX(trimmed) THEN Invalid("Invalid email format")
    ELSE [valid |-> TRUE, reason |-> "none"]

\* the checks on local and domain, in the order the function makes them
partChecks(local, domain, trimmed) ==
    IF Len(local) = 0 THEN Invalid("Empty local part (before @)")
    ELSE IF Len(local) > MaxLocalLength THEN Invalid("Local part too long (max 64 characters)")
    ELSE IF Len(domain) = 0 THEN Invalid("Empty domain part (after @)")
    ELSE IF ~includes(domain, ".") THEN Invalid("Domain missing TLD")
    ELSE IF Len(pop(split(domain, "."))) < 2 THEN Invalid("Invalid TLD")
    ELSE IF startsWith(local, ".") \/ endsWith(local, ".")
         THEN Invalid("Local part cannot start or end with a dot")
    ELSE IF includesDotDot(local) THEN Invalid("Local part cannot have consecutive dots")
    ELSE IF startsWith(domain, ".") \/ startsWith(domain, "-")
         THEN Invalid("Domain cannot start with dot or hyphen")
    ELSE IF endsWith(domain, "-") THEN Invalid("Domain cannot end with hyphen")
    ELSE IF ~SIMPLE_EMAIL_REGEX(trimmed) THEN Invalid("Invalid email format")
    ELSE [valid |-> TRUE, reason |-> "none"]

validateEmailSyntax(email) ==
    IF email.type # "string" \/ Len(email.val) = 0 THEN Invalid("Empty or invalid input")
    ELSE LET trimmed == toLowerCase(trim(email.val))
             parts == split(trimmed, "@")
         IN  IF Len(trimmed) = 0 THEN Invalid("Empty email")
             ELSE IF Len(trimmed) > MaxEmailLength
                  THEN Invalid("Email too long (max 254 characters)")
             ELSE IF ~includes(trimmed, "@") THEN Invalid("Missing @ symbol")
             ELSE IF Len(parts) # 2 THEN Invalid("Multiple @ symbols")
             ELSE partChecks(parts[1], parts[2], trimmed)

----------------------------------------------------------------------------
(* Pattern tables (lib/disposable-domains) and their lookups *)

gmial_com == <<"g", "m", "i", "a", "l", ".", "c", "o", "m">>
gmail_com == <<"g", "m", "a", "i", "l", ".", "c", "o", "m">>
yopmail_co == <<"y", "o", "p", "m", "a", "i", "l", ".", "c", "o">>
yopmail_com == <<"y", "o", "p", "m", "a", "i", "l", ".", "c", "o", "m">>
mailinator_com == <<"m", "a", "i", "l", "i", "n", "a", "t", "o", "r", ".", "c", "o", "m">>
b_co == <<"b", ".", "c", "o">>
c_io == <<"c", ".", "i", "o">>
info == <<"i", "n", "f", "o">>
admin == <<"a", "d", "m", "i", "n">>
user == <<"u", "s", "e", "r">>

\* typo -> correction; yopmail_co is listed as a typo and as a disposable domain
DOMAIN_TYPOS == {<<gmial_com, gmail_com>>, <<yopmail_co, yopmail_com>>}
DISPOSABLE_DOMAINS == {mailinator_com, yopmail_com, yopmail_co}
ROLE_BASED_PREFIXES == {info, admin}

checkDisposable(domain) == domain \in DISPOSABLE_DOMAINS

checkRoleBased(local) == local \in ROLE_BASED_PREFIXES

\* DOMAIN_TYPOS[domain] || null, null written <<>>
checkTypo(domain) ==
    IF \E e \in DOMAIN_TYPOS : e[1] = domain
    THEN (CHOOSE e \in DOMAIN_TYPOS : e[1] = domain)[2]
    ELSE <<>>

----------------------------------------------------------------------------
(* validateEmailSync *)

NoSuggestion == <<>>

Result(email, status, reason, suggestion) ==
    [email |-> email, status |-> status, reason |-> reason, suggestion |-> suggestion]

Throw == [kind |-> "throw"]
Return(v) == [kind |-> "return", value |-> v]

\* patternChecks with the role-based check made first
patternChecksRoleFirst(trimmedEmail, local, domain) ==
    IF checkRoleBased(local)
    THEN Result(trimmedEmail, "risky", "Role-based email address (generic)", NoSuggestion)
    ELSE IF Len(checkTypo(domain)) > 0
    THEN Result(trimmedEmail, "risky", "Possible typo in domain",
                local \o <<"@">> \o checkTypo(domain))
    ELSE IF checkDisposable(domain)
    THEN Result(trimmedEmail, "invalid", "Disposable/temporary email address", NoSuggestion)
    ELSE Result(trimmedEmail, "valid", "Pending MX verification", NoSuggestion)

\* patternChecks with the suggestion built on the domain as typed
patternChecksKeepDomain(trimmedEmail, local, domain) ==
    IF Len(checkTypo(domain)) > 0
    THEN Result(trimmedEmail, "risky", "Possible typo in domain",
                local \o <<"@">> \o domain)
    ELSE IF checkDisposable(domain)
    THEN Result(trimmedEmail, "invalid", "Disposable/temporary email address", NoSuggestion)
    ELSE IF checkRoleBased(local)
    THEN Result(trimmedEmail, "risky", "Role-based email address (generic)", NoSuggestion)
    ELSE Result(trimmedEmail, "valid", "Pending MX verification", NoSuggestion)

\* the pattern checks of a syntactically valid address
patternChecks(trimmedEmail, local, domain) ==
    IF Len(checkTypo(domain)) > 0
    THEN Result(trimmedEmail, "risky", "Possible typo in domain",
                local \o <<"@">> \o checkTypo(domain))
    ELSE IF checkDisposable(domain)
    THEN Result(trimmedEmail, "invalid", "Disposable/temporary email address", NoSuggestion)
    ELSE IF checkRoleBased(local)
    THEN Result(trimmedEmail, "risky", "Role-based email address (generic)", NoSuggestion)
    ELSE Result(trimmedEmail, "valid", "Pending MX verification", NoSuggestion)

\* email.trim() of a value that is not a string is a TypeError
validateEmailSync(email) ==
    IF email.type # "string" THEN Throw
    ELSE LET trimmedEmail == toLowerCase(trim(email.val))
             syntaxResult == validateEmailSyntax(email)
             parts == split(trimmedEmail, "@")
         IN  IF ~syntaxResult.valid
             THEN Return(Result(trimmedEmail, "invalid", syntaxResult.reason, NoSuggestion))
             ELSE Return(patternChecks(trimmedEmail, parts[1], parts[2]))

----------------------------------------------------------------------------
(* Pure-function harness: one value, one application *)

MaxLen == 6

Alphabet == {"a", ".", "@", "-", " "}

RECURSIVE StringsUpTo(_)
StringsUpTo(n) ==
    IF n = 0 THEN {<<>>}
    ELSE LET shorter == StringsUpTo(n - 1)
         IN  shorter \cup {Append(s, c) : s \in {t \in shorter : Len(t) = n - 1}, c \in Alphabet}

\* "gmiAl.com" followed by a space
toUpperTypo == <<"g", "m", "i", "A", "l", ".", "c", "o", "m", " ">>

Repeat(c, n) == [i \in 1..n |-> c]

At(local, domain) == local \o <<"@">> \o domain

\* addresses that meet the pattern tables, the length limits, and upper case
PatternPool ==
    {At(l, d) : l \in {user, info, admin},
                d \in {gmial_com, yopmail_co, mailinator_com, yopmail_com, b_co, c_io}}
    \cup {<<" ", "U">> \o <<"@">> \o <<"B", ".", "c", "o", " ">>,
          <<" ", "U">> \o <<"@">> \o toUpperTypo,
          At(<<"A">>, <<"B", ".", "a", "a">>),
          Repeat("a", MaxEmailLength + 1),
          At(Repeat("a", MaxEmailLength - 4), b_co),
          At(Repeat("a", MaxEmailLength - 5), b_co),
          At(Repeat("a", MaxLocalLength + 1), b_co),
          At(Repeat("a", MaxLocalLength), b_co),
          At(<<".">> \o Repeat("a", MaxLocalLength), <<"b">>)}

PureInputs == {Str(s) : s \in StringsUpTo(MaxLen) \cup PatternPool} \cup {Num, Null}

NoValue == [kind |-> "none"]

PureInit ==
    /\ arg \in PureInputs /\ fn = "none" /\ ret = NoValue
    /\ mxCache = <<>> /\ calls = <<>> /\ requests = <<>> /\ resolver = <<>>
    /\ legacy = <<>> /\ client = <<>>

CallSyntax ==
    /\ fn = "none"
    /\ fn' = "validateEmailSyntax"
    /\ ret' = Return(validateEmailSyntax(arg))
    /\ UNCHANGED <<arg, batchVars>>

CallSync ==
    /\ fn = "none"
    /\ fn' = "validateEmailSync"
    /\ ret' = validateEmailSync(arg)
    /\ UNCHANGED <<arg, batchVars>>

PureNext == CallSyntax \/ CallSync

PureSpec == PureInit /\ [][PureNext]_vars

----------------------------------------------------------------------------
(* Claims about validateEmailSyntax and validateEmailSync *)

normalized(email) == toLowerCase(trim(email.val))
localOf(email) == split(normalized(email), "@")[1]
domainOf(email) == split(normalized(email), "@")[2]
twoParts(email) == email.type = "string" /\ Len(split(normalized(email), "@")) = 2

\* rule k of the syntax validator's rule list is violated by the input
RuleViolated(k, email) ==
    CASE k = 1 -> email.type # "string" \/ Len(normalized(email)) = 0
      [] k = 2 -> email.type = "string" /\ Len(normalized(email)) > 254
      [] k = 3 -> email.type = "string" /\ ~includes(normalized(email), "@")
      [] k = 4 -> email.type = "string" /\ Len(split(normalized(email), "@")) > 2
      [] k = 5 -> twoParts(email) /\ (Len(localOf(email)) = 0 \/ Len(localOf(email)) > 64)
      [] k = 6 -> twoParts(email) /\ (\/ startsWith(localOf(email), ".")
                                      \/ endsWith(localOf(email), ".")
                                      \/ includesDotDot(localOf(email)))
      [] k = 7 -> twoParts(email) /\ (Len(domainOf(email)) = 0 \/ ~includes(domainOf(email), "."))
      [] k = 8 -> twoParts(email) /\ Len(pop(split(domainOf(email), "."))) < 2
      [] k = 9 -> twoParts(email) /\ (\/ startsWith(domainOf(email), ".")
                                      \/ startsWith(domainOf(email), "-")
                                      \/ endsWith(domainOf(email), "-"))
      [] k = 10 -> email.type = "string" /\ ~SIMPLE_EMAIL_REGEX(normalized(email))

\* the first rule of the order that the input violates, 0 when it violates none
FirstViolated(order, email) ==
    LET hits == {i \in 1..Len(order) : RuleViolated(order[i], email)}
    IN  IF hits = {} THEN 0 ELSE order[Min(hits)]

\* the rule a reason string belongs to
RuleOfReason(reason) ==
    CASE reason \in {"Empty or invalid input", "Empty email"} -> 1
      [] reason = "Email too long (max 254 characters)" -> 2
      [] reason = "Missing @ symbol" -> 3
      [] reason = "Multiple @ symbols" -> 4
      [] reason \in {"Empty local part (before @)", "Local part too long (max 64 characters)"} -> 5
      [] reason \in {"Local part cannot start or end with a dot",
                     "Local part cannot have consecutive dots"} -> 6
      [] reason \in {"Empty domain part (after @)", "Domain missing TLD"} -> 7
      [] reason = "Invalid TLD" -> 8
      [] reason \in {"Domain cannot start with dot or hyphen",
                     "Domain cannot end with hyphen"} -> 9
      [] reason = "Invalid email format" -> 10
      [] OTHER -> 0

RuleReported(r) == IF r.valid THEN 0 ELSE RuleOfReason(r.reason)

ListedOrder == <<1, 2, 3, 4, 5, 6, 7, 8, 9, 10>>
CheckedOrder == <<1, 2, 3, 4, 5, 7, 8, 6, 9, 10>>

\* C2 as stated: validateEmailSyntax reports the lowest-numbered violated rule
\* of the list 1-10, so a local-part dot fault (6) wins over a domain fault (7, 8).
C2_ListedOrder ==
    fn = "validateEmailSyntax" => RuleReported(ret.value) = FirstViolated(ListedOrder, arg)

\* C2 amended: validateEmailSyntax reports the first violated rule in the order
\* 1, 2, 3, 4, 5, 7, 8, 6, 9, 10 (the domain's emptiness, dot and trailing label
\* are checked before the dots of the local part), and accepts exactly the
\* inputs that violate no rule.
C2_CheckedOrder ==
    fn = "validateEmailSyntax" => RuleReported(ret.value) = FirstViolated(CheckedOrder, arg)

\* an input with a dot fault in the local part and a domain fault was validated,
\* and the domain's rule was the one reported
C2_Witness ==
    /\ fn = "validateEmailSyntax"
    /\ RuleViolated(6, arg)
    /\ RuleViolated(7, arg) \/ RuleViolated(8, arg)
    /\ \A k \in 1..5 : ~RuleViolated(k, arg)
    /\ RuleReported(ret.value) \in {7, 8}

typoKeys == {e[1] : e \in DOMAIN_TYPOS}
correctionOf(d) == (CHOOSE e \in DOMAIN_TYPOS : e[1] = d)[2]
syntaxOk(email) == email.type = "string" /\ validateEmailSyntax(email).valid

\* C3: for a syntactically valid address the first matching check, in the order
\* typo, disposable, role-based, decides: a typo domain gives risky whatever else
\* matches, a disposable domain that is no typo gives invalid whatever the local
\* part, and the role-based outcome occurs only when neither of the others matched.
C3_PatternPriority ==
    (fn = "validateEmailSync" /\ syntaxOk(arg)) =>
        LET r == ret.value
            typo == domainOf(arg) \in typoKeys
            disp == domainOf(arg) \in DISPOSABLE_DOMAINS
            role == localOf(arg) \in ROLE_BASED_PREFIXES
        IN  /\ ret.kind = "return"
            /\ typo => r.status = "risky" /\ r.reason = "Possible typo in domain"
            /\ (~typo /\ disp) =>
                   r.status = "invalid" /\ r.reason = "Disposable/temporary email address"
            /\ (~typo /\ ~disp /\ role) =>
                   r.status = "risky" /\ r.reason = "Role-based email address (generic)"
            /\ r.reason = "Role-based email address (generic)" => (~typo /\ ~disp /\ role)
            /\ (~typo /\ ~disp /\ ~role) => r.status = "valid"

\* an address matching all three checks was classified, as a typo
C3_Witness ==
    /\ fn = "validateEmailSync"
    /\ syntaxOk(arg)
    /\ domainOf(arg) \in typoKeys
    /\ domainOf(arg) \in DISPOSABLE_DOMAINS
    /\ localOf(arg) \in ROLE_BASED_PREFIXES
    /\ ret.value.reason = "Possible typo in domain"

\* C4: a syntactically valid address whose domain is a key of the typo table gets
\* risky with suggestion local part, "@", corrected domain; no other outcome
\* carries a suggestion.
C4_SuggestionOnlyForTypo ==
    (fn = "validateEmailSync" /\ ret.kind = "return") =>
        LET r == ret.value
            typo == syntaxOk(arg) /\ domainOf(arg) \in typoKeys
        IN  /\ typo => /\ r.status = "risky"
                       /\ r.suggestion = localOf(arg) \o <<"@">> \o correctionOf(domainOf(arg))
            /\ ~typo => r.suggestion = NoSuggestion

\* a typo address with upper case and spaces was classified and got its suggestion
C4_Witness ==
    /\ fn = "validateEmailSync"
    /\ arg = Str(<<" ", "U">> \o <<"@">> \o toUpperTypo)
    /\ ret.value.suggestion = <<"u", "@">> \o gmail_com

----------------------------------------------------------------------------
(* The resolver's answers (dns.google/resolve) *)

\* A parsed response body: the fields it has, and their values. json = "null"
\* is the body "null", on which reading .Status is a TypeError.
Body(json, fields, status, answer) ==
    [json |-> json, fields |-> fields, Status |-> status, Answer |-> answer]

DnsBodies ==
    {Body("object", {"Status", "Answer"}, 0, <<[type |-> 15]>>),   \* MX records
     Body("object", {"Status", "Answer"}, 0, <<[type |-> 1]>>),    \* A records
     Body("object", {"Status", "Answer"}, 0, <<[type |-> 5]>>),    \* a CNAME only
     Body("object", {"Status", "Answer"}, 0, <<>>),                \* an empty answer list
     Body("object", {"Status"}, 0, <<>>),                          \* NOERROR, no Answer
     Body("object", {"Status"}, 3, <<>>),                          \* NXDOMAIN
     Body("object", {}, 0, <<>>),                                  \* { "error": ... }
     Body("null", {}, 0, <<>>)}

\* the body has the structure the resolver documents: an object with a Status
wellFormed(data) == data.json = "object" /\ "Status" \in data.fields

\* data.Status === 0 && data.Answer && data.Answer.length > 0
hasAnswer(data) ==
    "Status" \in data.fields /\ data.Status = 0 /\ "Answer" \in data.fields /\ Len(data.Answer) > 0

\* ... && data.Answer.some(record => record.type === 15)
hasMX(data) == hasAnswer(data) /\ \E k \in 1..Len(data.Answer) : data.Answer[k].type = 15

\* aData.Status === 0 && aData.Answer && aData.Answer.length > 0: the value of
\* the first falsy operand, else of the last
hasA(aData) ==
    IF ~("Status" \in aData.fields /\ aData.Status = 0) THEN "false"
    ELSE IF "Answer" \notin aData.fields THEN "undefined"
    ELSE IF Len(aData.Answer) > 0 THEN "true" ELSE "false"

----------------------------------------------------------------------------
(* Maps *)

has(m, k) == k \in DOMAIN m
get(m, k) == IF k \in DOMAIN m THEN m[k] ELSE "undefined"
set(m, k, v) == [x \in DOMAIN m \cup {k} |-> IF x = k THEN v ELSE m[x]]

Range(f) == {f[x] : x \in DOMAIN f}

----------------------------------------------------------------------------
(* checkMXRecord: one lookup task *)

\* pc: where the async function stands; timer: an abort timer is pending that
\* ends the current wait; value: what the function returned.
\* History: hit (answered from the cache), mxSent and aSent (requests issued), failed (a request was rejected, or its
\* body was unreadable or not well-formed), answered (a request got a
\* well-formed body).
Unstarted(domain) ==
    [domain |-> domain, pc |-> "unstarted", timer |-> FALSE, value |-> "undefined",
     hit |-> FALSE, mxSent |-> 0, aSent |-> 0,
     failed |-> FALSE, answered |-> FALSE]

\* the start of checkMXRecord with the cache check left out
checkMXRecordNoCache(lk, cache) ==
    [lk EXCEPT !.pc = "mxFetch", !.timer = TRUE, !.mxSent = @ + 1]

\* the start of checkMXRecord with false returned for every domain in the cache
checkMXRecordHitFalse(lk, cache) ==
    IF has(cache, lk.domain)
    THEN [lk EXCEPT !.pc = "settled", !.value = "false", !.hit = TRUE]
    ELSE [lk EXCEPT !.pc = "mxFetch", !.timer = TRUE, !.mxSent = @ + 1]

\* the synchronous start of checkMXRecord: the cache check, else the MX request
\* with its 3 s abort timer
checkMXRecord(lk, cache) ==
    IF has(cache, lk.domain)
    THEN [lk EXCEPT !.pc = "settled", !.value = cache[lk.domain], !.hit = TRUE]
    ELSE [lk EXCEPT !.pc = "mxFetch", !.timer = TRUE, !.mxSent = @ + 1]

\* catch: mxCache.set(domain, true); return true
caught(lk) == [lk EXCEPT !.pc = "settled", !.timer = FALSE, !.value = "true", !.failed = TRUE]

\* fetch resolved: clearTimeout(timeout), then await response.json()
mxHeaders(lk) == [lk EXCEPT !.pc = "mxBody", !.timer = FALSE]

\* the MX body parsed
mxBody(lk, data) ==
    IF data.json = "null" THEN caught(lk)
    ELSE LET seen == [lk EXCEPT !.failed = @ \/ ~wellFormed(data),
                                !.answered = @ \/ wellFormed(data)]
         IN  IF hasMX(data)
             THEN [seen EXCEPT !.pc = "settled", !.value = "true"]
             ELSE [seen EXCEPT !.pc = "aFetch", !.timer = TRUE, !.aSent = @ + 1]

\* the A fetch resolved; AbortSignal.timeout(2000) stays pending over the body
aHeaders(lk) == [lk EXCEPT !.pc = "aBody"]

\* the A body parsed
aBody(lk, aData) ==
    IF aData.json = "null" THEN caught(lk)
    ELSE [lk EXCEPT !.pc = "settled", !.timer = FALSE, !.value = hasA(aData),
                    !.failed = @ \/ ~wellFormed(aData),
                    !.answered = @ \/ wellFormed(aData)]

----------------------------------------------------------------------------
(* validateEmailBatch *)

batchSize == 20

IdleCall ==
    [pc |-> "idle", emails |-> <<>>, syncResults |-> <<>>, validIndices |-> <<>>,
     domainArray |-> <<>>, domainResults |-> <<>>, i |-> 0, lookups |-> <<>>,
     returnedBefore |-> {}, cacheAtStart |-> {}]

\* the test of Step 2 passed by every result that is not invalid
isPendingOrRisky(result) == result.status \in {"valid", "risky"}

isPending(result) == result.status = "valid" /\ result.reason = "Pending MX verification"

resultDomain(result) == split(result.email, "@")[2]

\* Array.from(new Set(seq)): the first occurrences, in order
RECURSIVE unique(_)
unique(seq) ==
    IF seq = <<>> THEN <<>>
    ELSE LET front == unique(SubSeq(seq, 1, Len(seq) - 1))
             last == seq[Len(seq)]
         IN  IF last \in Range(front) THEN front ELSE Append(front, last)

\* the domains to check collected in an array, not in a Set
domainsToCheckNoSet(results) ==
    LET pending(r) == isPending(r)
        pendingResults == SelectSeq(results, pending)
    IN  [k \in 1..Len(pendingResults) |-> resultDomain(pendingResults[k])]

\* Step 2: the distinct domains of the pending results, in order of first use
domainsToCheck(results) ==
    LET pending(r) == isPending(r)
        pendingResults == SelectSeq(results, pending)
    IN  unique([k \in 1..Len(pendingResults) |-> resultDomain(pendingResults[k])])

\* Step 2: the indices of the pending results
validIndicesOf(results) ==
    LET pending(k) == isPending(results[k])
    IN  SelectSeq([k \in 1..Len(results) |-> k], pending)

\* the group taken to be all that is left of domainArray
groupOfAll(st) == {j \in 1..Len(st.domainArray) : st.i < j}

\* the positions of domainArray in the group that starts at i (domainArray.slice(i, i + batchSize))
group(st) == {j \in 1..Len(st.domainArray) : st.i < j /\ j <= st.i + batchSize}

groupSettled(st) == \A j \in group(st) : st.lookups[j].pc = "settled"

\* batch.map(async domain => checkMXRecord(domain)): every task of the group starts
launchGroup(st, cache) ==
    [st EXCEPT !.lookups = [j \in 1..Len(st.lookups) |->
        IF j \in group(st) THEN checkMXRecord(st.lookups[j], cache) ELSE st.lookups[j]]]

\* results.forEach(({domain, hasMX}) => domainResults.set(domain, hasMX)); i += batchSize
collectGroup(st) ==
    LET doms == {st.domainArray[j] : j \in group(st)}
        lastOf(d) == Max({j \in group(st) : st.domainArray[j] = d})
    IN  [st EXCEPT !.domainResults = [d \in DOMAIN st.domainResults \cup doms |->
                        IF d \in doms THEN st.lookups[lastOf(d)].value ELSE st.domainResults[d]],
                   !.i = @ + batchSize]

\* Step 4 with the else branch left out
finalizeFalseOnly(result, hasMXValue) ==
    IF hasMXValue = "false"
    THEN [result EXCEPT !.status = "invalid",
                        !.reason = "Domain has no mail server (no MX record)"]
    ELSE result

\* Step 4 on one pending result
finalize(result, hasMXValue) ==
    IF hasMXValue = "false"
    THEN [result EXCEPT !.status = "invalid",
                        !.reason = "Domain has no mail server (no MX record)"]
    ELSE [result EXCEPT !.reason = "All checks passed"]

\* Step 4 and the return: only the pending results are kept
finishPendingOnly(st) ==
    [st EXCEPT !.pc = "returned",
               !.syncResults = [n \in 1..Len(st.validIndices) |->
                   finalize(st.syncResults[st.validIndices[n]],
                            get(st.domainResults, resultDomain(st.syncResults[st.validIndices[n]])))]]

\* Step 4 with the n-th pending result finalized from the n-th entry of
\* domainArray, and the return
finishByPosition(st) ==
    [st EXCEPT !.pc = "returned",
               !.syncResults = [k \in 1..Len(st.syncResults) |->
                   IF k \in Range(st.validIndices)
                   THEN LET n == CHOOSE m \in 1..Len(st.validIndices) : st.validIndices[m] = k
                        IN  finalize(st.syncResults[k],
                                     IF n <= Len(st.domainArray)
                                     THEN get(st.domainResults, st.domainArray[n])
                                     ELSE "undefined")
                   ELSE st.syncResults[k]]]

\* Step 4 and the return of syncResults, updated in place
finish(st) ==
    [st EXCEPT !.pc = "returned",
               !.syncResults = [k \in 1..Len(st.syncResults) |->
                   IF k \in Range(st.validIndices)
                   THEN finalize(st.syncResults[k],
                                 get(st.domainResults, resultDomain(st.syncResults[k])))
                   ELSE st.syncResults[k]]]

\* the for loop of Step 3 from its test, up to the next await that has to wait
RECURSIVE resolveLoop(_, _)
resolveLoop(st, cache) ==
    IF st.i < Len(st.domainArray)
    THEN LET launched == launchGroup(st, cache)
         IN  IF groupSettled(launched)
             THEN resolveLoop(collectGroup(launched), cache)
             ELSE [launched EXCEPT !.pc = "awaiting"]
    ELSE finish(st)

\* a task of the awaited group settled: Promise.all resolves once all have
resume(st, cache) ==
    IF groupSettled(st) THEN resolveLoop(collectGroup(st), cache) ELSE st

\* the call with the cache emptied first
validateEmailBatchFreshCache(st, emails, cache, returned) ==
    LET results == [k \in 1..Len(emails) |-> validateEmailSync(emails[k])]
    IN  IF \E k \in 1..Len(emails) : results[k].kind = "throw"
        THEN [st EXCEPT !.pc = "rejected", !.emails = emails]
        ELSE LET syncResults == [k \in 1..Len(emails) |-> results[k].value]
                 domainArray == domainsToCheck(syncResults)
             IN  resolveLoop([st EXCEPT !.emails = emails,
                                        !.syncResults = syncResults,
                                        !.validIndices = validIndicesOf(syncResults),
                                        !.domainArray = domainArray,
                                        !.lookups = [j \in 1..Len(domainArray) |->
                                                        Unstarted(domainArray[j])],
                                        !.returnedBefore = returned,
                                        !.cacheAtStart = DOMAIN cache],
                                 <<>>)

\* the call, from its entry to its first await that has to wait (or its return)
validateEmailBatch(st, emails, cache, returned) ==
    LET results == [k \in 1..Len(emails) |-> validateEmailSync(emails[k])]
    IN  IF \E k \in 1..Len(emails) : results[k].kind = "throw"
        THEN [st EXCEPT !.pc = "rejected", !.emails = emails]
        ELSE LET syncResults == [k \in 1..Len(emails) |-> results[k].value]
                 domainArray == domainsToCheck(syncResults)
             IN  resolveLoop([st EXCEPT !.emails = emails,
                                        !.syncResults = syncResults,
                                        !.validIndices = validIndicesOf(syncResults),
                                        !.domainArray = domainArray,
                                        !.lookups = [j \in 1..Len(domainArray) |->
                                                        Unstarted(domainArray[j])],
                                        !.returnedBefore = returned,
                                        !.cacheAtStart = DOMAIN cache],
                                 cache)

----------------------------------------------------------------------------
(* POST /api/verify (src/app/api/verify/route.ts) *)

maxBatchSize == 5000

\* A request body as request.json() meets it: json = "invalid" when it does not
\* parse, else the kind of JSON value; fields: the properties of an object body;
\* emails: the value of its emails property.
JsonBody(json, fields, emails) == [json |-> json, fields |-> fields, emails |-> emails]

Arr(list) == [type |-> "array", val |-> list]

NoSummary == [total |-> 0, valid |-> 0, invalid |-> 0, risky |-> 0]

\* NextResponse.json({ error }, { status })
ErrorResponse(status, error) ==
    [status |-> status, success |-> FALSE, error |-> error,
     summary |-> NoSummary, results |-> <<>>]

\* results.filter(r => r.status === status).length
countStatus(results, status) ==
    Cardinality({k \in 1..Len(results) : results[k].status = status})

\* the summary with every count taken over the valid results only
summaryOfValidOnly(results) ==
    [total |-> countStatus(results, "valid"),
     valid |-> countStatus(results, "valid"),
     invalid |-> 0,
     risky |-> 0]

summaryOf(results) ==
    [total |-> Len(results),
     valid |-> countStatus(results, "valid"),
     invalid |-> countStatus(results, "invalid"),
     risky |-> countStatus(results, "risky")]

\* NextResponse.json({ success: true, summary, results })
SuccessResponse(results) ==
    [status |-> 200, success |-> TRUE, error |-> "none",
     summary |-> summaryOf(results), results |-> results]

NoResponse == [status |-> 0, success |-> FALSE, error |-> "none",
               summary |-> NoSummary, results |-> <<>>]

NoRequest == [pc |-> "none", body |-> JsonBody("none", {}, Null), response |-> NoResponse]

\* the handler after await validateEmailBatch(emails): the summary and the
\* response, or the catch when the call rejected
respond(st) ==
    IF st.pc = "rejected" THEN ErrorResponse(500, "Verification failed")
    ELSE SuccessResponse(st.syncResults)

\* the checks of the handler on the parsed body: the response they end in, or
\* NoResponse when the handler goes on to validateEmailBatch
guardsNoLimit(body) ==
    IF body.json \in {"invalid", "null"} THEN ErrorResponse(500, "Verification failed")
    ELSE IF ~(body.json = "object" /\ "emails" \in body.fields /\ body.emails.type = "array")
    THEN ErrorResponse(400, "Invalid request: emails array required")
    ELSE IF Len(body.emails.val) = 0 THEN ErrorResponse(400, "No emails provided")
    ELSE NoResponse

guards(body) ==
    IF body.json \in {"invalid", "null"} THEN ErrorResponse(500, "Verification failed")
    ELSE IF ~(body.json = "object" /\ "emails" \in body.fields /\ body.emails.type = "array")
    THEN ErrorResponse(400, "Invalid request: emails array required")
    ELSE IF Len(body.emails.val) = 0 THEN ErrorResponse(400, "No emails provided")
    ELSE IF Len(body.emails.val) > maxBatchSize
    THEN ErrorResponse(400, "Batch too large. Maximum 5000 emails per request.")
    ELSE NoResponse

\* the promise of validateEmailBatch settled: the awaiting handler responds
deliver(req, st) ==
    IF req.pc = "awaiting" /\ st.pc \in {"returned", "rejected"}
    THEN [req EXCEPT !.pc = "responded", !.response = respond(st)]
    ELSE req

----------------------------------------------------------------------------
(* The process: invocations of validateEmailBatch and the resolver's events *)

NumCalls == 2
MaxBatch == 2
MaxAddresses == 3

Calls == 1..NumCalls

\* the list elements a caller submits: clean addresses of two domains, one with
\* spaces and upper case; a role-based, a typo, a disposable and a malformed
\* address; a number
BatchPool ==
    {Str(<<" ", "U">> \o <<"@">> \o <<"B", ".", "c", "o", " ">>),
     Str(At(user, b_co)),
     Str(At(user, c_io)),
     Str(At(info, b_co)),
     Str(At(user, gmial_com)),
     Str(At(user, mailinator_com)),
     Str(<<".", "@">>),
     Num}

RECURSIVE ListsUpTo(_)
ListsUpTo(n) ==
    IF n = 0 THEN {<<>>}
    ELSE LET shorter == ListsUpTo(n - 1)
         IN  shorter \cup {Append(l, e) : l \in {t \in shorter : Len(t) = n - 1}, e \in BatchPool}

\* the lists a caller submits
BatchInputs == ListsUpTo(MaxBatch)

Init ==
    /\ mxCache = <<>>
    /\ calls = [c \in Calls |-> IdleCall]
    /\ requests = [c \in Calls |-> NoRequest]
    /\ resolver = <<>>
    /\ legacy = <<>> /\ client = <<>>
    /\ arg = Null /\ fn = "none" /\ ret = NoValue

\* the addresses submitted so far, over all calls
submitted == LET RECURSIVE sum(_)
                 sum(S) == IF S = {} THEN 0
                           ELSE LET b == CHOOSE x \in S : TRUE
                                IN  Len(calls[b].emails) + sum(S \ {b})
             IN  sum(Calls)

Call(c, emails) ==
    /\ calls[c].pc = "idle"
    /\ submitted + Len(emails) <= MaxAddresses
    /\ calls' = [calls EXCEPT ![c] =
           validateEmailBatch(@, emails, mxCache,
                              {b \in Calls : calls[b].pc = "returned"})]
    /\ UNCHANGED <<mxCache, requests, otherVars>>

waiting(c, j, pc) ==
    /\ calls[c].pc = "awaiting"
    /\ j \in 1..Len(calls[c].lookups)
    /\ calls[c].lookups[j].pc = pc

\* a lookup moves on without settling
step(c, j, lk) ==
    /\ calls' = [calls EXCEPT ![c].lookups[j] = lk]
    /\ UNCHANGED <<mxCache, requests, otherVars>>

\* a lookup settles: mxCache.set(domain, value), return value, and the batch goes
\* on; when the batch returns to a POST handler, the handler responds
settle(c, j, lk) ==
    /\ mxCache' = set(mxCache, lk.domain, lk.value)
    /\ calls' = [calls EXCEPT ![c] =
           resume([@ EXCEPT !.lookups[j] = lk], mxCache')]
    /\ requests' = [requests EXCEPT ![c] = deliver(@, calls'[c])]
    /\ UNCHANGED otherVars

advance(c, j, lk) == IF lk.pc = "settled" THEN settle(c, j, lk) ELSE step(c, j, lk)

\* the MX fetch rejects: a network error, or the 3 s timer aborted it
MxFetchRejects(c, j) == waiting(c, j, "mxFetch") /\ settle(c, j, caught(calls[c].lookups[j]))

\* the MX response headers arrive
MxFetchResolves(c, j) == waiting(c, j, "mxFetch") /\ step(c, j, mxHeaders(calls[c].lookups[j]))

\* response.json() rejects: the body is no JSON, or the connection broke
MxJsonRejects(c, j) == waiting(c, j, "mxBody") /\ settle(c, j, caught(calls[c].lookups[j]))

\* response.json() resolves
MxJsonResolves(c, j, data) ==
    waiting(c, j, "mxBody") /\ advance(c, j, mxBody(calls[c].lookups[j], data))

\* the A fetch rejects: a network error, or the 2 s signal aborted it
AFetchRejects(c, j) == waiting(c, j, "aFetch") /\ settle(c, j, caught(calls[c].lookups[j]))

\* the A response headers arrive
AFetchResolves(c, j) == waiting(c, j, "aFetch") /\ step(c, j, aHeaders(calls[c].lookups[j]))

\* aResponse.json() rejects: no JSON, a broken connection, or the 2 s signal
AJsonRejects(c, j) == waiting(c, j, "aBody") /\ settle(c, j, caught(calls[c].lookups[j]))

\* aResponse.json() resolves
AJsonResolves(c, j, aData) ==
    waiting(c, j, "aBody") /\ settle(c, j, aBody(calls[c].lookups[j], aData))

Next ==
    \/ \E c \in Calls : \E emails \in BatchInputs : Call(c, emails)
    \/ \E c \in Calls : \E j \in 1..MaxBatch : MxFetchRejects(c, j)
    \/ \E c \in Calls : \E j \in 1..MaxBatch : MxFetchResolves(c, j)
    \/ \E c \in Calls : \E j \in 1..MaxBatch : MxJsonRejects(c, j)
    \/ \E c \in Calls : \E j \in 1..MaxBatch : \E data \in DnsBodies : MxJsonResolves(c, j, data)
    \/ \E c \in Calls : \E j \in 1..MaxBatch : AFetchRejects(c, j)
    \/ \E c \in Calls : \E j \in 1..MaxBatch : AFetchResolves(c, j)
    \/ \E c \in Calls : \E j \in 1..MaxBatch : AJsonRejects(c, j)
    \/ \E c \in Calls : \E j \in 1..MaxBatch : \E aData \in DnsBodies : AJsonResolves(c, j, aData)

Spec == Init /\ [][Next]_vars

----------------------------------------------------------------------------
(* Claims about validateEmailBatch and checkMXRecord *)

returned(c) == calls[c].pc = "returned"
tasks(c) == 1..Len(calls[c].lookups)
lookup(c, j) == calls[c].lookups[j]
upperCased == Str(<<" ", "U">> \o <<"@">> \o <<"B", ".", "c", "o", " ">>)

\* C1: a call that was given strings returns a list as long as its input whose
\* i-th email is the trimmed, lower-cased i-th input, whatever the resolver
\* answered and however the lookups interleaved.
C1_OrderAndCount ==
    \A c \in Calls : returned(c) =>
        /\ Len(calls[c].syncResults) = Len(calls[c].emails)
        /\ \A k \in 1..Len(calls[c].emails) :
               calls[c].syncResults[k].email = normalized(calls[c].emails[k])

\* a call with two elements, the second written with spaces and upper case and
\* the first not pending, returned after a lookup that asked the resolver
C1_Witness ==
    \E c \in Calls :
        /\ returned(c)
        /\ Len(calls[c].emails) = 2
        /\ calls[c].emails[2] = upperCased
        /\ calls[c].syncResults[2].email = <<"u", "@">> \o b_co
        /\ ~isPending(validateEmailSync(calls[c].emails[1]).value)
        /\ \E j \in tasks(c) : lookup(c, j).mxSent = 1

\* C5: within one call the resolver gets at most one MX query and at most one A
\* query for any domain, however many addresses of the list share the domain.
C5_OneLookupPerDomain ==
    \A c \in Calls : \A j \in tasks(c) :
        /\ lookup(c, j).mxSent <= 1
        /\ lookup(c, j).aSent <= 1
        /\ \A k \in tasks(c) :
               (k # j /\ lookup(c, k).domain = lookup(c, j).domain) =>
                   (lookup(c, j).mxSent = 0 \/ lookup(c, k).mxSent = 0)

\* a call with two pending addresses of one domain returned, after one MX and
\* one A query for it
C5_Witness ==
    \E c \in Calls :
        /\ returned(c)
        /\ Len(calls[c].validIndices) = 2
        /\ Len(calls[c].lookups) = 1
        /\ lookup(c, 1).mxSent = 1
        /\ lookup(c, 1).aSent = 1

\* C6: when every lookup of a call asked the resolver and no request got a
\* well-formed answer (rejected, timed out, unreadable or malformed), the call
\* returns with every pending address finalized as valid.
C6_FailuresGiveValid ==
    \A c \in Calls :
        (/\ returned(c)
         /\ \A j \in tasks(c) : lookup(c, j).mxSent = 1 /\ ~lookup(c, j).answered) =>
            \A k \in Range(calls[c].validIndices) : calls[c].syncResults[k].status = "valid"

\* C7: a lookup one of whose requests was rejected, timed out, or returned a body
\* that is not the expected structure, returns true.
C7_FailureGivesTrue ==
    \A c \in Calls : \A j \in tasks(c) :
        (lookup(c, j).pc = "settled" /\ lookup(c, j).failed) => lookup(c, j).value = "true"

\* the calls that had returned before c began and resolved domain d themselves
wroteBefore(c, d) ==
    {b \in calls[c].returnedBefore :
        \E k \in tasks(b) : lookup(b, k).domain = d /\ ~lookup(b, k).hit}

\* C8 as stated: an entry written while one call runs is not visible to a later
\* call: no lookup of a call is answered from the cache for a domain that a call
\* which had returned before resolved.
C8_CacheScopedToCall ==
    \A c \in Calls : \A j \in tasks(c) :
        lookup(c, j).hit => wroteBefore(c, lookup(c, j).domain) = {}

\* C8 amended: the cache is module-level and never cleared: a domain that had an
\* entry when a call began, or that a call which had returned before resolved, is
\* answered from the cache without any request (also an optimistic true stored on
\* a failure), and a call asks the resolver only for its pending domains that
\* have no entry.
C8_CacheOutlivesCall ==
    \A c \in Calls : \A j \in tasks(c) :
        LET lk == lookup(c, j)
            cached == lk.domain \in calls[c].cacheAtStart
        IN  lk.pc # "unstarted" =>
                /\ cached => (lk.hit /\ lk.mxSent = 0 /\ lk.aSent = 0 /\ lk.pc = "settled")
                /\ wroteBefore(c, lk.domain) # {} => cached
                /\ (~cached /\ j <= batchSize) => (~lk.hit /\ lk.mxSent = 1)

\* a call returned with a domain answered from the optimistic true that an
\* earlier call had stored on a failure
C8_Witness ==
    \E c \in Calls : \E j \in tasks(c) : \E b \in wroteBefore(c, lookup(c, j).domain) :
        /\ returned(c)
        /\ lookup(c, j).hit
        /\ lookup(c, j).value = "true"
        /\ \E k \in tasks(b) : /\ lookup(b, k).domain = lookup(c, j).domain
                               /\ lookup(b, k).failed
                               /\ ~lookup(b, k).answered

\* C9: every wait of a lookup (for the headers or for the body of the MX or of
\* the A response) is ended by a timeout, so that the call returns even when the
\* resolver stalls there.
C9_EveryWaitHasTimeout ==
    \A c \in Calls : \A j \in tasks(c) :
        lookup(c, j).pc \in {"mxFetch", "mxBody", "aFetch", "aBody"} => lookup(c, j).timer

\* C10: a call whose list holds an element that is not a string is not rejected:
\* it returns one outcome per element, an invalid one for that element.
C10_FaultContained ==
    \A c \in Calls :
        /\ calls[c].pc # "rejected"
        /\ returned(c) =>
               /\ Len(calls[c].syncResults) = Len(calls[c].emails)
               /\ \A k \in 1..Len(calls[c].emails) :
                      calls[c].emails[k].type # "string" =>
                          calls[c].syncResults[k].status = "invalid"

----------------------------------------------------------------------------
(* The process behind the route: POST requests and the resolver's events *)

\* the list elements a client posts
ApiPool == {Str(At(user, b_co)), Str(At(info, b_co)), Str(<<>>), Num}

RECURSIVE ListsOver(_, _)
ListsOver(pool, n) ==
    IF n = 0 THEN {<<>>}
    ELSE LET shorter == ListsOver(pool, n - 1)
         IN  shorter \cup {Append(l, e) : l \in {t \in shorter : Len(t) = n - 1}, e \in pool}

\* a list of n elements: one address that needs a lookup, then empty strings
RECURSIVE EmptyStrings(_)
EmptyStrings(n) ==
    IF n = 0 THEN <<>>
    ELSE IF n % 2 = 0 THEN LET half == EmptyStrings(n \div 2) IN half \o half
    ELSE Append(EmptyStrings(n - 1), Str(<<>>))

LongList(n) == <<Str(At(user, b_co))>> \o EmptyStrings(n - 1)

ApiBodies ==
    {JsonBody("invalid", {}, Null),                          \* not JSON
     JsonBody("null", {}, Null),                             \* null
     JsonBody("string", {}, Null),                           \* "..."
     JsonBody("object", {}, Null),                           \* {}
     JsonBody("object", {"emails"}, Null),                   \* { emails: null }
     JsonBody("object", {"emails"}, Str(At(user, b_co))),    \* { emails: "user@b.co" }
     JsonBody("object", {"emails"}, [type |-> "object", val |-> <<>>])}
    \cup {JsonBody("object", {"emails"}, Arr(l)) : l \in ListsOver(ApiPool, MaxBatch)}
    \cup {JsonBody("object", {"emails"}, Arr(LongList(maxBatchSize))),
          JsonBody("object", {"emails"}, Arr(LongList(maxBatchSize + 1)))}

\* the handler from the arrival of the body to its response, or to its wait for
\* validateEmailBatch; a list longer than MaxBatch is accepted as the first
\* request only, and is the last one then
POST(c, body) ==
    /\ requests[c].pc = "none"
    /\ calls[c].pc = "idle"
    /\ \A b \in Calls : Len(calls[b].emails) <= MaxBatch
    /\ LET early == guards(body)
       IN  IF early # NoResponse
           THEN /\ requests' = [requests EXCEPT ![c] =
                       [pc |-> "responded", body |-> body, response |-> early]]
                /\ UNCHANGED <<mxCache, calls, otherVars>>
           ELSE /\ IF Len(body.emails.val) <= MaxBatch
                   THEN submitted + Len(body.emails.val) <= MaxAddresses
                   ELSE \A b \in Calls : requests[b].pc = "none"
                /\ calls' = [calls EXCEPT ![c] =
                       validateEmailBatch(@, body.emails.val, mxCache,
                                          {b \in Calls : calls[b].pc = "returned"})]
                /\ requests' = [requests EXCEPT ![c] =
                       deliver([pc |-> "awaiting", body |-> body, response |-> NoResponse],
                               calls'[c])]
                /\ UNCHANGED <<mxCache, otherVars>>

ApiNext ==
    \/ \E c \in Calls : \E body \in ApiBodies : POST(c, body)
    \/ \E c \in Calls : \E j \in 1..MaxBatch : MxFetchRejects(c, j)
    \/ \E c \in Calls : \E j \in 1..MaxBatch : MxFetchResolves(c, j)
    \/ \E c \in Calls : \E j \in 1..MaxBatch : MxJsonRejects(c, j)
    \/ \E c \in Calls : \E j \in 1..MaxBatch : \E data \in DnsBodies : MxJsonResolves(c, j, data)
    \/ \E c \in Calls : \E j \in 1..MaxBatch : AFetchRejects(c, j)
    \/ \E c \in Calls : \E j \in 1..MaxBatch : AFetchResolves(c, j)
    \/ \E c \in Calls : \E j \in 1..MaxBatch : AJsonRejects(c, j)
    \/ \E c \in Calls : \E j \in 1..MaxBatch : \E aData \in DnsBodies : AJsonResolves(c, j, aData)

ApiSpec == Init /\ [][ApiNext]_vars

----------------------------------------------------------------------------
(* Claims about POST /api/verify *)

responded(c) == requests[c].pc = "responded"

\* the body parsed to a JSON value other than null
parsed(body) == body.json \notin {"invalid", "null"}

hasList(body) == body.json = "object" /\ "emails" \in body.fields /\ body.emails.type = "array"

\* the emails field is missing, is not a list, is an empty list, or is too long
badList(body) ==
    \/ ~hasList(body)
    \/ Len(body.emails.val) = 0
    \/ Len(body.emails.val) > 5000

C12_RejectionOrComplete ==
    \A c \in Calls : responded(c) =>
        LET r == requests[c].response
        IN  \/ r.status \in 400..499
            \/ /\ r.success
               /\ hasList(requests[c].body)
               /\ Len(r.results) = Len(requests[c].body.emails.val)
               /\ \A k \in 1..Len(r.results) :
                      r.results[k].email = normalized(requests[c].body.emails.val[k])

\* the number of results with the status, counted by filtering
numberOf(results, status) ==
    LET is(r) == r.status = status
    IN  Len(SelectSeq(results, is))

\* C13: in a success response summary.total is the number of results and of
\* submitted addresses, valid + invalid + risky is total, and each count is the
\* number of results with that status.
C13_SummaryCounts ==
    \A c \in Calls : (responded(c) /\ requests[c].response.success) =>
        LET r == requests[c].response
        IN  /\ r.summary.total = Len(r.results)
            /\ r.summary.total = Len(requests[c].body.emails.val)
            /\ r.summary.valid + r.summary.invalid + r.summary.risky = r.summary.total
            /\ r.summary.valid = numberOf(r.results, "valid")
            /\ r.summary.invalid = numberOf(r.results, "invalid")
            /\ r.summary.risky = numberOf(r.results, "risky")

\* a success response for two addresses, one risky and one invalid because its
\* domain has no mail server
C13_Witness ==
    \E c \in Calls :
        /\ responded(c)
        /\ requests[c].response.success
        /\ requests[c].response.summary = [total |-> 2, valid |-> 0, invalid |-> 1, risky |-> 1]
        /\ \E k \in 1..2 : requests[c].response.results[k].reason =
                               "Domain has no mail server (no MX record)"

----------------------------------------------------------------------------
(* The process with a stable resolver: every request for a domain has the same
   outcome, and each call classifies one address *)

\* what a request to the resolver ends in: the fetch rejects (network error or
\* timeout), the body cannot be read as JSON, or the body parses to data
Outcomes ==
    {[kind |-> "reject", data |-> Body("null", {}, 0, <<>>)],
     [kind |-> "unreadable", data |-> Body("null", {}, 0, <<>>)]}
    \cup {[kind |-> "body", data |-> d] : d \in DnsBodies}

\* one address in three spellings, a role-based address, and a malformed one
StablePool ==
    {Str(At(user, b_co)),
     Str(<<" ", "U", "S", "E", "R">> \o <<"@">> \o <<"B", ".", "c", "o", " ">>),
     Str(At(info, b_co)),
     Str(<<".", "@">>)}

StableInit ==
    /\ mxCache = <<>>
    /\ calls = [c \in Calls |-> IdleCall]
    /\ requests = [c \in Calls |-> NoRequest]
    /\ resolver \in [{b_co} -> [mx : Outcomes, a : Outcomes]]
    /\ legacy = <<>> /\ client = <<>>
    /\ arg = Null /\ fn = "none" /\ ret = NoValue

mxOutcome(c, j) == resolver[calls[c].lookups[j].domain].mx
aOutcome(c, j) == resolver[calls[c].lookups[j].domain].a

StableCall(c, email) == Call(c, <<email>>)

StableMxFetchRejects(c, j) ==
    waiting(c, j, "mxFetch") /\ mxOutcome(c, j).kind = "reject" /\ MxFetchRejects(c, j)

StableMxFetchResolves(c, j) ==
    waiting(c, j, "mxFetch") /\ mxOutcome(c, j).kind # "reject" /\ MxFetchResolves(c, j)

StableMxJsonRejects(c, j) ==
    waiting(c, j, "mxBody") /\ mxOutcome(c, j).kind = "unreadable" /\ MxJsonRejects(c, j)

StableMxJsonResolves(c, j) ==
    waiting(c, j, "mxBody") /\ mxOutcome(c, j).kind = "body"
        /\ MxJsonResolves(c, j, mxOutcome(c, j).data)

StableAFetchRejects(c, j) ==
    waiting(c, j, "aFetch") /\ aOutcome(c, j).kind = "reject" /\ AFetchRejects(c, j)

StableAFetchResolves(c, j) ==
    waiting(c, j, "aFetch") /\ aOutcome(c, j).kind # "reject" /\ AFetchResolves(c, j)

StableAJsonRejects(c, j) ==
    waiting(c, j, "aBody") /\ aOutcome(c, j).kind = "unreadable" /\ AJsonRejects(c, j)

StableAJsonResolves(c, j) ==
    waiting(c, j, "aBody") /\ aOutcome(c, j).kind = "body"
        /\ AJsonResolves(c, j, aOutcome(c, j).data)

StableNext ==
    \/ \E c \in Calls : \E email \in StablePool : StableCall(c, email)
    \/ \E c \in Calls : StableMxFetchRejects(c, 1)
    \/ \E c \in Calls : StableMxFetchResolves(c, 1)
    \/ \E c \in Calls : StableMxJsonRejects(c, 1)
    \/ \E c \in Calls : StableMxJsonResolves(c, 1)
    \/ \E c \in Calls : StableAFetchRejects(c, 1)
    \/ \E c \in Calls : StableAFetchResolves(c, 1)
    \/ \E c \in Calls : StableAJsonRejects(c, 1)
    \/ \E c \in Calls : StableAJsonResolves(c, 1)

StableSpec == StableInit /\ [][StableNext]_vars

\* C14: with a stable resolver, two calls that each classified the same address
\* (up to spaces around it and letter case) alone in its list returned the same
\* status and the same reason, whether they ran one after the other or at the
\* same time.
C14_SameTwice ==
    \A c \in Calls : \A b \in Calls :
        (/\ returned(c) /\ returned(b)
         /\ normalized(calls[b].emails[1]) = normalized(calls[c].emails[1])) =>
            /\ calls[c].syncResults[1].status = calls[b].syncResults[1].status
            /\ calls[c].syncResults[1].reason = calls[b].syncResults[1].reason

\* the same address was classified by a call that asked the resolver, whose
\* request failed, and by a later call that was answered from the cache
C14_Witness ==
    \E c \in Calls : \E b \in Calls :
        /\ c # b
        /\ returned(c) /\ returned(b)
        /\ calls[b].emails = calls[c].emails
        /\ c \in calls[b].returnedBefore
        /\ Len(calls[c].lookups) = 1 /\ Len(calls[b].lookups) = 1
        /\ lookup(c, 1).failed
        /\ lookup(b, 1).hit
        /\ calls[b].syncResults[1].reason = "All checks passed"

----------------------------------------------------------------------------
(* Claims about the outcomes validateEmailBatch returns *)

\* the value the call's lookup for the domain returned
resolved(c, d) == lookup(c, CHOOSE j \in tasks(c) : lookup(c, j).domain = d).value

\* C15: in a returned call every address that was pending after the synchronous
\* stage is invalid with the no-mail-server reason if the lookup of its domain
\* returned false and valid with 'All checks passed' if it returned true, the
\* other outcomes are those of the synchronous stage, and no outcome carries
\* 'Pending MX verification'.
C15_PendingFinalized ==
    \A c \in Calls : returned(c) =>
        \A k \in 1..Len(calls[c].emails) :
            LET sync == validateEmailSync(calls[c].emails[k]).value
                r == calls[c].syncResults[k]
            IN  /\ r.reason # "Pending MX verification"
                /\ ~isPending(sync) => r = sync
                /\ (isPending(sync) /\ resolved(c, resultDomain(sync)) = "false") =>
                       /\ r.status = "invalid"
                       /\ r.reason = "Domain has no mail server (no MX record)"
                /\ (isPending(sync) /\ resolved(c, resultDomain(sync)) = "true") =>
                       /\ r.status = "valid"
                       /\ r.reason = "All checks passed"

\* a call returned two pending addresses, one whose domain resolved to false and
\* one whose domain resolved to true
C15_Witness ==
    \E c \in Calls :
        /\ returned(c)
        /\ Len(calls[c].validIndices) = 2
        /\ calls[c].syncResults[1].reason = "Domain has no mail server (no MX record)"
        /\ calls[c].syncResults[2].reason = "All checks passed"
        /\ resolved(c, resultDomain(calls[c].syncResults[2])) = "true"

noPattern(email) ==
    /\ domainOf(email) \notin typoKeys
    /\ domainOf(email) \notin DISPOSABLE_DOMAINS
    /\ localOf(email) \notin ROLE_BASED_PREFIXES

\* C16: every returned outcome has status valid, invalid or risky; a risky one
\* is a typo outcome with a suggestion or a role-based outcome; an invalid one
\* has a syntax, disposable or no-mail-server reason; a valid one belongs to an
\* address that passed syntax, matched no pattern, and whose domain resolved to
\* true.
C16_DataModel ==
    \A c \in Calls : returned(c) =>
        \A k \in 1..Len(calls[c].emails) :
            LET r == calls[c].syncResults[k]
                email == calls[c].emails[k]
            IN  /\ r.status \in {"valid", "invalid", "risky"}
                /\ r.status = "risky" =>
                       \/ r.reason = "Possible typo in domain" /\ r.suggestion # NoSuggestion
                       \/ r.reason = "Role-based email address (generic)"
                /\ r.status = "invalid" =>
                       \/ RuleOfReason(r.reason) # 0
                       \/ r.reason = "Disposable/temporary email address"
                       \/ r.reason = "Domain has no mail server (no MX record)"
                /\ r.status = "valid" =>
                       /\ syntaxOk(email)
                       /\ noPattern(email)
                       /\ resolved(c, domainOf(email)) = "true"

----------------------------------------------------------------------------
(* The process with one call for many domains. The resolver serves the requests
   of a call in the order they were made, Window at a time; only the live
   domains get an answer, a request for another domain is rejected or returns
   an unreadable body. *)

MaxDomains == 22
Window == 2

\* the n-th domain: n letters a, then .co
domainNo(n) == Repeat("a", n) \o <<".", "c", "o">>

\* one address for each of the first n domains
ManyDomains(n) == [k \in 1..n |-> Str(At(user, domainNo(k)))]

GroupInputs == {ManyDomains(n) : n \in (MaxDomains - 2)..MaxDomains}

\* the last domain of the first group and the first of the second
LiveDomains == {domainNo(batchSize), domainNo(batchSize + 1)}

inFlight(c) == {j \in tasks(c) : lookup(c, j).pc \in {"mxFetch", "mxBody", "aFetch", "aBody"}}

served(c, j) == Cardinality({k \in inFlight(c) : k < j}) < Window

live(c, j) == j \in tasks(c) /\ lookup(c, j).domain \in LiveDomains

GroupCall(c, emails) ==
    /\ \A b \in Calls : calls[b].pc = "idle"
    /\ calls' = [calls EXCEPT ![c] = validateEmailBatch(@, emails, mxCache, {})]
    /\ UNCHANGED <<mxCache, requests, otherVars>>

GroupMxFetchRejects(c, j) == served(c, j) /\ MxFetchRejects(c, j)

GroupMxFetchResolves(c, j) == served(c, j) /\ MxFetchResolves(c, j)

GroupMxJsonRejects(c, j) == served(c, j) /\ MxJsonRejects(c, j)

GroupMxJsonResolves(c, j, data) == served(c, j) /\ live(c, j) /\ MxJsonResolves(c, j, data)

GroupAFetchRejects(c, j) == served(c, j) /\ AFetchRejects(c, j)

GroupAFetchResolves(c, j) == served(c, j) /\ AFetchResolves(c, j)

GroupAJsonRejects(c, j) == served(c, j) /\ AJsonRejects(c, j)

GroupAJsonResolves(c, j, aData) == served(c, j) /\ AJsonResolves(c, j, aData)

GroupNext ==
    \/ \E c \in Calls : \E emails \in GroupInputs : GroupCall(c, emails)
    \/ \E c \in Calls : \E j \in 1..MaxDomains : GroupMxFetchRejects(c, j)
    \/ \E c \in Calls : \E j \in 1..MaxDomains : GroupMxFetchResolves(c, j)
    \/ \E c \in Calls : \E j \in 1..MaxDomains : GroupMxJsonRejects(c, j)
    \/ \E c \in Calls : \E j \in 1..MaxDomains : \E data \in DnsBodies :
           GroupMxJsonResolves(c, j, data)
    \/ \E c \in Calls : \E j \in 1..MaxDomains : GroupAFetchRejects(c, j)
    \/ \E c \in Calls : \E j \in 1..MaxDomains : GroupAFetchResolves(c, j)
    \/ \E c \in Calls : \E j \in 1..MaxDomains : GroupAJsonRejects(c, j)
    \/ \E c \in Calls : \E j \in 1..MaxDomains : \E aData \in DnsBodies :
           GroupAJsonResolves(c, j, aData)

GroupSpec == Init /\ [][GroupNext]_vars

\* the group a position of domainArray belongs to, groups being of 20
groupNo(j) == (j - 1) \div 20

\* C17: at no moment are more than 20 lookups of a call in flight, and a lookup
\* of a later group has started only when every lookup of the groups before it
\* has settled, whichever way they settled.
C17_GroupsOfTwenty ==
    \A c \in Calls :
        /\ Cardinality(inFlight(c)) <= 20
        /\ \A j \in tasks(c) : \A k \in tasks(c) :
               (groupNo(j) < groupNo(k) /\ lookup(c, k).pc # "unstarted") =>
                   lookup(c, j).pc = "settled"

\* a call for more than 20 domains has its second group in flight, after a first
\* group of 20 in which one lookup got an answer and the others failed
C17_Witness ==
    \E c \in Calls :
        /\ Len(calls[c].lookups) > 20
        /\ lookup(c, 21).pc \in {"mxFetch", "mxBody", "aFetch", "aBody"}
        /\ \A j \in 1..20 : lookup(c, j).pc = "settled"
        /\ lookup(c, 20).answered /\ ~lookup(c, 20).failed
        /\ \A j \in 1..19 : lookup(c, j).failed

----------------------------------------------------------------------------
(* Claims about checkMXRecord and about which domains are looked up *)

\* the lookup j of call c leaves "unstarted" in this step: checkMXRecord is called
called(c, j) ==
    /\ j \in DOMAIN calls'[c].lookups
    /\ calls'[c].lookups[j].pc # "unstarted"
    /\ j \in DOMAIN calls[c].lookups => calls[c].lookups[j].pc = "unstarted"

\* C18: checkMXRecord called for a domain that has a cache entry returns the
\* entry's value at once, sends no request and leaves the cache as it is.
C18_HitIsFree ==
    [][\A c \in Calls : \A j \in 1..MaxBatch :
          (called(c, j) /\ has(mxCache, calls'[c].lookups[j].domain)) =>
              LET lk == calls'[c].lookups[j]
              IN  /\ lk.pc = "settled"
                  /\ lk.value = mxCache[lk.domain]
                  /\ lk.mxSent = 0 /\ lk.aSent = 0
                  /\ mxCache' = mxCache]_vars

\* a lookup answered from a cache entry whose value is false, with no request
C18_Witness ==
    \E c \in Calls : \E j \in tasks(c) :
        /\ lookup(c, j).hit
        /\ lookup(c, j).value = "false"
        /\ lookup(c, j).mxSent = 0
        /\ get(mxCache, lookup(c, j).domain) = "false"

\* C19: a lookup whose requests both succeeded (no rejection, no unreadable or
\* malformed body) returns true or false, false only after the A query, and the
\* A query is sent at most once.
C19_TrueOrFalse ==
    \A c \in Calls : \A j \in tasks(c) :
        LET lk == lookup(c, j)
        IN  (lk.pc = "settled" /\ ~lk.hit /\ ~lk.failed) =>
                /\ lk.value \in {"true", "false"}
                /\ lk.value = "false" => lk.aSent = 1
                /\ lk.aSent <= 1

\* the list elements that passed syntax and matched no pattern
cleanElements == {e \in BatchPool : syntaxOk(e) /\ noPattern(e)}

\* the domains of the call's addresses that passed syntax and matched no pattern
cleanDomains(c) == {domainOf(e) : e \in Range(calls[c].emails) \cap cleanElements}

\* C20: a call has a lookup, and so a request, only for the domain of one of its
\* addresses that passed syntax and matched no typo, disposable or role-based
\* pattern; every cache entry was written by a lookup that asked the resolver;
\* a call without such an address has no lookup and returns at once.
C20_LookupsOnlyForClean ==
    /\ \A c \in Calls :
           calls[c].pc # "idle" =>
               LET domains == cleanDomains(c)
               IN  /\ \A j \in tasks(c) : lookup(c, j).domain \in domains
                   /\ domains = {} =>
                          (calls[c].lookups = <<>> /\ calls[c].pc \in {"returned", "rejected"})
    /\ \A d \in DOMAIN mxCache :
           \E c \in Calls : \E j \in tasks(c) :
               /\ lookup(c, j).domain = d
               /\ lookup(c, j).pc = "settled"
               /\ lookup(c, j).mxSent = 1

\* a call with a role-based address on one domain and a clean address on another
\* returned after a request for the second domain only, and a call with a typo
\* and a disposable address returned without any lookup
C20_Witness ==
    \E c \in Calls : \E b \in Calls :
        /\ returned(c)
        /\ calls[c].emails = <<Str(At(info, b_co)), Str(At(user, c_io))>>
        /\ Len(calls[c].lookups) = 1
        /\ lookup(c, 1).domain = c_io
        /\ lookup(c, 1).mxSent = 1
        /\ returned(b)
        /\ Len(calls[b].emails) > 0
        /\ calls[b].emails \in {<<Str(At(user, gmial_com))>>, <<Str(At(user, mailinator_com))>>,
                                <<Str(<<".", "@">>)>>}
        /\ calls[b].lookups = <<>>
        /\ DOMAIN mxCache = {c_io}

----------------------------------------------------------------------------
(* Claims about the shared cache and about addresses that share a domain *)

\* C23: once the cache holds an entry for a domain, no later write changes its
\* value, however the calls that share the cache interleave.
C23_EntriesNeverChange ==
    [][\A d \in DOMAIN mxCache : d \in DOMAIN mxCache' /\ mxCache'[d] = mxCache[d]]_vars

\* C24: in the list a call returns, the addresses that were pending and share a
\* domain have the same status and reason, and equal input strings have equal
\* outcomes.
C24_SameDomainSameOutcome ==
    \A c \in Calls : returned(c) =>
        \A k \in 1..Len(calls[c].emails) : \A l \in 1..Len(calls[c].emails) :
            LET rk == calls[c].syncResults[k]
                rl == calls[c].syncResults[l]
            IN  /\ (/\ k \in Range(calls[c].validIndices)
                    /\ l \in Range(calls[c].validIndices)
                    /\ resultDomain(rk) = resultDomain(rl)) =>
                       (rk.status = rl.status /\ rk.reason = rl.reason)
                /\ calls[c].emails[k] = calls[c].emails[l] => rk = rl

\* a call returned two pending addresses of one domain, written differently,
\* both invalid because the domain has no mail server
C24_Witness ==
    \E c \in Calls :
        /\ returned(c)
        /\ Len(calls[c].emails) = 2
        /\ calls[c].emails[1] # calls[c].emails[2]
        /\ Range(calls[c].validIndices) = {1, 2}
        /\ Len(calls[c].lookups) = 1
        /\ \A k \in 1..2 : calls[c].syncResults[k].reason =
                               "Domain has no mail server (no MX record)"

----------------------------------------------------------------------------
(* The chunked validator (lib/email-validator.ts before the domain cache):
   checkMXRecord without cache and timer, validateEmail per address, and
   validateEmailBatch in chunks with a progress callback *)

\* const batchSize = 50 of the chunked validateEmailBatch
chunkSize == 50

\* email.toLowerCase().split('@')[1]: the address is not trimmed
getDomain(email) == split(toLowerCase(email), "@")[2]

checkTypoOfEmail(email) == checkTypo(split(toLowerCase(email), "@")[2])
checkDisposableOfEmail(email) == checkDisposable(split(toLowerCase(email), "@")[2])
checkRoleBasedOfEmail(email) == checkRoleBased(split(toLowerCase(email), "@")[1])

Checks(syntax, mxRecord, disposable, roleBased, typo) ==
    [syntax |-> syntax, mxRecord |-> mxRecord, disposable |-> disposable,
     roleBased |-> roleBased, typo |-> typo]

EmailValidationResult(email, status, reason, suggestion, checks) ==
    [email |-> email, status |-> status, reason |-> reason, suggestion |-> suggestion,
     checks |-> checks]

NoResult == EmailValidationResult(<<>>, "none", "", NoSuggestion,
                                  Checks(FALSE, FALSE, FALSE, FALSE, FALSE))

\* One validateEmail(email). pc: where the async function stands; result: the
\* result object; domain: the argument of checkMXRecord.
\* History: failed (a request of the lookup was rejected, or its body was
\* unreadable or null).
Task(pc, domain, result) ==
    [pc |-> pc, domain |-> domain, result |-> result, failed |-> FALSE]

NotStarted == Task("unstarted", <<>>, NoResult)

\* validateEmail up to its first await; email.trim() of a value that is not a
\* string is a TypeError, which rejects the promise
validateEmail(email) ==
    IF email.type # "string" THEN Task("rejected", <<>>, NoResult)
    ELSE LET address == toLowerCase(trim(email.val))
             syntaxResult == validateEmailSyntax(email)
             typoSuggestion == checkTypoOfEmail(email.val)
         IN  IF ~syntaxResult.valid
             THEN Task("settled", <<>>,
                      EmailValidationResult(address, "invalid", syntaxResult.reason, NoSuggestion,
                                            Checks(FALSE, FALSE, FALSE, FALSE, FALSE)))
             ELSE IF Len(typoSuggestion) > 0
             THEN Task("settled", <<>>,
                      EmailValidationResult(address, "risky", "Possible typo in domain",
                                            split(email.val, "@")[1] \o <<"@">> \o typoSuggestion,
                                            Checks(TRUE, FALSE, FALSE, FALSE, FALSE)))
             ELSE IF checkDisposableOfEmail(email.val)
             THEN Task("settled", <<>>,
                      EmailValidationResult(address, "invalid",
                                            "Disposable/temporary email address", NoSuggestion,
                                            Checks(TRUE, FALSE, FALSE, FALSE, TRUE)))
             ELSE IF checkRoleBasedOfEmail(email.val)
             THEN Task("settled", <<>>,
                      EmailValidationResult(address, "risky",
                                            "Role-based email address (generic)", NoSuggestion,
                                            Checks(TRUE, FALSE, TRUE, FALSE, TRUE)))
             ELSE Task("mxFetch", getDomain(email.val),
                       EmailValidationResult(address, "valid", "All checks passed", NoSuggestion,
                                             Checks(TRUE, FALSE, TRUE, TRUE, TRUE)))

\* validateEmail after checkMXRecord returned { exists }
mxResult(task, exists) ==
    IF exists
    THEN [task EXCEPT !.pc = "settled", !.result.checks.mxRecord = TRUE]
    ELSE [task EXCEPT !.pc = "settled", !.result.status = "invalid",
                      !.result.reason = "Domain has no mail server (no MX record)"]

\* catch of the chunked checkMXRecord: return { exists: false }
lookupCaught(task) == mxResult([task EXCEPT !.failed = TRUE], FALSE)

\* the MX body parsed: with an answer, exists is whether it holds a record of
\* type 15; else the A request
lookupMxBody(task, data) ==
    IF data.json = "null" THEN lookupCaught(task)
    ELSE IF hasAnswer(data) THEN mxResult(task, hasMX(data))
    ELSE [task EXCEPT !.pc = "aFetch"]

\* the A body parsed
lookupABody(task, aData) ==
    IF aData.json = "null" THEN lookupCaught(task)
    ELSE mxResult(task, hasAnswer(aData))

IdleBatch ==
    [pc |-> "idle", emails |-> <<>>, observed |-> FALSE, i |-> 0,
     tasks |-> <<>>, results |-> <<>>, progress |-> <<>>]

\* the positions of the chunk that starts after position i
chunk(st) == (st.i + 1)..Min({st.i + chunkSize, Len(st.emails)})

\* the first argument of onProgress, without Math.min
processedNoMin(i, total) == i + chunkSize

\* Math.min(i + batchSize, total)
processed(i, total) == Min({i + chunkSize, total})

\* after await Promise.all(...): push the chunk's results, report progress, and
\* wait 100 ms when addresses remain. Promise.all rejects as soon as one
\* validateEmail rejects.
chunkDone(st) ==
    IF \E k \in chunk(st) : st.tasks[k].pc = "rejected" THEN [st EXCEPT !.pc = "rejected"]
    ELSE IF \E k \in chunk(st) : st.tasks[k].pc # "settled" THEN [st EXCEPT !.pc = "awaiting"]
    ELSE [st EXCEPT
             !.results = @ \o [k \in 1..Cardinality(chunk(st)) |-> st.tasks[st.i + k].result],
             !.progress = IF st.observed
                          THEN Append(@, <<processed(st.i, Len(st.emails)), Len(st.emails)>>)
                          ELSE @,
             !.pc = IF st.i + chunkSize < Len(st.emails) THEN "sleeping" ELSE "returned"]

\* batch.map(validateEmail) for the chunk after position i
startChunk(st) ==
    chunkDone([st EXCEPT !.tasks = [k \in 1..Len(st.emails) |->
                                       IF k \in chunk(st) THEN validateEmail(st.emails[k])
                                       ELSE st.tasks[k]]])

\* the loop's increment after the delay, and the next chunk
nextChunk(st) == startChunk([st EXCEPT !.i = @ + chunkSize])

validateEmailBatchInChunks(emails, observed) ==
    LET st == [IdleBatch EXCEPT !.emails = emails, !.observed = observed,
                                !.tasks = [k \in 1..Len(emails) |-> NotStarted]]
    IN  IF Len(emails) = 0 THEN [st EXCEPT !.pc = "returned"] ELSE startChunk(st)

----------------------------------------------------------------------------
(* The process around the chunked validator: one call, the resolver's events,
   the timer *)

MaxChunks == 2

\* the short lists: clean addresses (one with spaces and upper case), a
\* role-based address, a number
ChunkPool ==
    {Str(At(user, b_co)),
     Str(<<" ", "U">> \o <<"@">> \o <<"B", ".", "c", "o", " ">>),
     Str(At(info, b_co)),
     Num}

\* a list of n role-based addresses with clean addresses at the ends of its chunks
EdgeList(n) ==
    [k \in 1..n |-> IF k % chunkSize \in {0, 1} \/ k = n
                    THEN Str(At(user, b_co)) ELSE Str(At(info, b_co))]

ChunkInputs ==
    ListsOver(ChunkPool, MaxBatch)
    \cup {EdgeList(n) : n \in {c * chunkSize + d : c \in 1..MaxChunks, d \in {0, 1}}}

ChunkInit ==
    /\ legacy = IdleBatch
    /\ mxCache = <<>> /\ calls = <<>> /\ requests = <<>> /\ resolver = <<>> /\ client = <<>>
    /\ arg = Null /\ fn = "none" /\ ret = NoValue

chunkFrame == <<mxCache, calls, requests, resolver, client, arg, fn, ret>>

ChunkCall(emails, observed) ==
    /\ legacy.pc = "idle"
    /\ legacy' = validateEmailBatchInChunks(emails, observed)
    /\ UNCHANGED chunkFrame

\* a validateEmail that is under way goes on also after Promise.all rejected
chunkWaiting(k, pc) ==
    /\ legacy.pc \in {"awaiting", "rejected"}
    /\ k \in 1..Len(legacy.tasks)
    /\ legacy.tasks[k].pc = pc

chunkAdvance(k, task) ==
    /\ legacy' = IF legacy.pc = "awaiting"
                 THEN chunkDone([legacy EXCEPT !.tasks[k] = task])
                 ELSE [legacy EXCEPT !.tasks[k] = task]
    /\ UNCHANGED chunkFrame

ChunkMxFetchRejects(k) ==
    chunkWaiting(k, "mxFetch") /\ chunkAdvance(k, lookupCaught(legacy.tasks[k]))

ChunkMxFetchResolves(k) ==
    chunkWaiting(k, "mxFetch") /\ chunkAdvance(k, [legacy.tasks[k] EXCEPT !.pc = "mxBody"])

ChunkMxJsonRejects(k) ==
    chunkWaiting(k, "mxBody") /\ chunkAdvance(k, lookupCaught(legacy.tasks[k]))

ChunkMxJsonResolves(k, data) ==
    chunkWaiting(k, "mxBody") /\ chunkAdvance(k, lookupMxBody(legacy.tasks[k], data))

ChunkAFetchRejects(k) ==
    chunkWaiting(k, "aFetch") /\ chunkAdvance(k, lookupCaught(legacy.tasks[k]))

ChunkAFetchResolves(k) ==
    chunkWaiting(k, "aFetch") /\ chunkAdvance(k, [legacy.tasks[k] EXCEPT !.pc = "aBody"])

ChunkAJsonRejects(k) ==
    chunkWaiting(k, "aBody") /\ chunkAdvance(k, lookupCaught(legacy.tasks[k]))

ChunkAJsonResolves(k, aData) ==
    chunkWaiting(k, "aBody") /\ chunkAdvance(k, lookupABody(legacy.tasks[k], aData))

\* setTimeout(resolve, 100) fires
DelayElapsed ==
    /\ legacy.pc = "sleeping"
    /\ legacy' = nextChunk(legacy)
    /\ UNCHANGED chunkFrame

MaxChunkList == MaxChunks * chunkSize + 1

ChunkNext ==
    \/ \E emails \in ChunkInputs : \E observed \in BOOLEAN : ChunkCall(emails, observed)
    \/ \E k \in 1..MaxChunkList : ChunkMxFetchRejects(k)
    \/ \E k \in 1..MaxChunkList : ChunkMxFetchResolves(k)
    \/ \E k \in 1..MaxChunkList : ChunkMxJsonRejects(k)
    \/ \E k \in 1..MaxChunkList : \E data \in DnsBodies : ChunkMxJsonResolves(k, data)
    \/ \E k \in 1..MaxChunkList : ChunkAFetchRejects(k)
    \/ \E k \in 1..MaxChunkList : ChunkAFetchResolves(k)
    \/ \E k \in 1..MaxChunkList : ChunkAJsonRejects(k)
    \/ \E k \in 1..MaxChunkList : \E aData \in DnsBodies : ChunkAJsonResolves(k, aData)
    \/ DelayElapsed

ChunkSpec == ChunkInit /\ [][ChunkNext]_vars

----------------------------------------------------------------------------
(* Claims about the chunked validator *)

\* the chunks (numbered from 0), and those whose addresses have all settled
chunkNumbers == 0..((Len(legacy.emails) - 1) \div chunkSize)
positionsOf(c) == (c * chunkSize + 1)..Min({(c + 1) * chunkSize, Len(legacy.emails)})
settledChunks ==
    {c \in chunkNumbers : \A k \in positionsOf(c) : legacy.tasks[k].pc = "settled"}
startedChunks ==
    {c \in chunkNumbers : \E k \in positionsOf(c) : legacy.tasks[k].pc # "unstarted"}

\* C21: a caller that passes onProgress is called once after each chunk of 50
\* with (processed, total); processed never exceeds total, grows strictly from
\* call to call, and equals total on the last call of a batch that is not
\* empty; the results come back in input order; and no address of a chunk is
\* started before every address of the chunks before it has settled.
C21_ProgressPerChunk ==
    legacy.pc # "idle" =>
        LET total == Len(legacy.emails)
            calls_ == legacy.progress
        IN  /\ Len(calls_) = IF legacy.observed THEN Cardinality(settledChunks) ELSE 0
            /\ \A j \in 1..Len(calls_) :
                  /\ calls_[j][2] = total
                  /\ calls_[j][1] <= total
                  /\ j > 1 => calls_[j][1] > calls_[j - 1][1]
            /\ legacy.pc = "returned" /\ legacy.observed /\ total > 0
                  => calls_[Len(calls_)][1] = total
            /\ legacy.pc = "returned" =>
                  /\ Len(legacy.results) = total
                  /\ \A k \in 1..total :
                        /\ legacy.results[k] = legacy.tasks[k].result
                        /\ legacy.results[k].email = toLowerCase(trim(legacy.emails[k].val))
            /\ \A c \in startedChunks : \A b \in chunkNumbers : b < c => b \in settledChunks

\* C21 witness: a batch of three chunks returned with three progress calls, the
\* last chunk shorter than 50
C21_Witness ==
    /\ legacy.pc = "returned"
    /\ legacy.observed
    /\ Len(legacy.emails) = 2 * chunkSize + 1
    /\ legacy.progress = <<<<chunkSize, 2 * chunkSize + 1>>,
                           <<2 * chunkSize, 2 * chunkSize + 1>>,
                           <<2 * chunkSize + 1, 2 * chunkSize + 1>>>>

\* C22: in the chunked validator, a resolver request that is rejected or whose
\* body cannot be read counts as mailable: the address it was made for is not
\* marked invalid.
C22_FailureKeepsValid ==
    legacy.pc # "idle" =>
        \A k \in 1..Len(legacy.tasks) :
            legacy.tasks[k].pc = "settled" /\ legacy.tasks[k].failed
                => legacy.tasks[k].result.status # "invalid"

----------------------------------------------------------------------------
(* The page (app/page.tsx): the parsed CSV, startVerification, downloadResults *)

\* const batchSize = 500 of startVerification
requestSize == 500

\* a row without a value in the email column
Undefined == [type |-> "undefined", val |-> <<>>]

NoClientSummary == [present |-> FALSE, total |-> 0, valid |-> 0, invalid |-> 0, risky |-> 0]

\* setSummary({ total, valid, invalid, risky })
clientSummary(allResults) ==
    [present |-> TRUE,
     total |-> Len(allResults),
     valid |-> countStatus(allResults, "valid"),
     invalid |-> countStatus(allResults, "invalid"),
     risky |-> countStatus(allResults, "risky")]

\* The component's state (originalData as the email column's values,
\* emailColumn, processing, results, summary, error), the locals of the
\* startVerification under way (pc, emails, i, allResults), and the last export.
\* History: sent (the request bodies, in order), inFlight (requests whose
\* response has not been read), failed (a request of this run failed).
FreshPage ==
    [originalData |-> <<>>, file |-> FALSE, emailColumn |-> "",
     status |-> "idle", progress |-> 0, total |-> 0, currentBatch |-> 0, totalBatches |-> 0,
     results |-> <<>>, summary |-> NoClientSummary, error |-> "",
     pc |-> "idle", emails |-> <<>>, i |-> 0, allResults |-> <<>>,
     exported |-> <<>>, filter |-> "none", downloads |-> 0,
     sent |-> <<>>, inFlight |-> 0, failed |-> FALSE]

\* .filter(email => email && email.trim().length > 0)
kept(email) == email.type = "string" /\ Len(email.val) > 0 /\ Len(trim(email.val)) > 0

filterKept(column) == SelectSeq(column, kept)

\* the number of batches: one per started 500 addresses
batchCount(emails) == (Len(emails) + requestSize - 1) \div requestSize

\* batches[i], i counted from 0: emails.slice(i * batchSize, i * batchSize + batchSize)
batchAt(emails, i) ==
    SubSeq(emails, i * requestSize + 1, Min({(i + 1) * requestSize, Len(emails)}))

\* await fetch('/api/verify', ...) for batches[i]
sendBatch(page) ==
    [page EXCEPT !.pc = "fetch",
                 !.sent = Append(@, batchAt(page.emails, page.i)),
                 !.inFlight = @ + 1]

\* startVerification up to its first await
startVerification(page) ==
    IF page.emailColumn = "" \/ Len(page.originalData) = 0
    THEN [page EXCEPT !.error = "Please select the email column"]
    ELSE LET emails == filterKept(page.originalData)
         IN  IF Len(emails) = 0
             THEN [page EXCEPT !.results = <<>>,
                               !.error = "No emails found in the selected column"]
             ELSE sendBatch([page EXCEPT
                      !.error = "", !.results = <<>>,
                      !.emails = emails, !.i = 0, !.allResults = <<>>,
                      !.status = "verifying", !.progress = 0, !.total = Len(emails),
                      !.currentBatch = 0, !.totalBatches = batchCount(emails),
                      !.sent = <<>>, !.failed = FALSE])

\* catch with the results collected so far published
onFailureKeepPartial(page, message) ==
    [page EXCEPT !.pc = "done", !.error = message, !.status = "error",
                 !.results = page.allResults,
                 !.inFlight = 0, !.failed = TRUE]

\* catch: setError(...); setProcessing(prev => ({ ...prev, status: 'error' }))
onFailure(page, message) ==
    [page EXCEPT !.pc = "done", !.error = message, !.status = "error",
                 !.inFlight = 0, !.failed = TRUE]

\* the body of an ok response parsed: collect, report progress, and send the
\* next batch or publish
onData(page, results) ==
    LET got == [page EXCEPT
                   !.allResults = @ \o results,
                   !.progress = Min({(page.i + 1) * requestSize, Len(page.emails)}),
                   !.currentBatch = page.i + 1,
                   !.i = @ + 1,
                   !.inFlight = @ - 1]
    IN  IF got.i < batchCount(page.emails) THEN sendBatch(got)
        ELSE [got EXCEPT !.pc = "done",
                         !.results = got.allResults,
                         !.summary = clientSummary(got.allResults),
                         !.status = "complete"]

NoExport == [email |-> Undefined, verification_status |-> "unknown",
             verification_reason |-> "", suggestion |-> NoSuggestion]

\* results.find(r => r.email === email?.toLowerCase()), and the exported row
exportRow(results, email) ==
    LET wanted == toLowerCase(email.val)
        found == {k \in 1..Len(results) : email.type = "string" /\ results[k].email = wanted}
    IN  IF found = {}
        THEN [NoExport EXCEPT !.email = email]
        ELSE LET result == results[Min(found)]
             IN  [email |-> email, verification_status |-> result.status,
                  verification_reason |-> result.reason, suggestion |-> result.suggestion]

\* dataToExport.filter(row => row.verification_status === filter)
filterStatus(rows, filter) == SelectSeq(rows, LAMBDA row : row.verification_status = filter)

\* downloadResults(filter): the rows handed to Papa.unparse
downloadResults(page, filter) ==
    LET dataToExport == [k \in 1..Len(page.originalData) |->
                            exportRow(page.results, page.originalData[k])]
    IN  IF filter = "none" THEN dataToExport ELSE filterStatus(dataToExport, filter)

----------------------------------------------------------------------------
(* The process around the page: the user's actions, the responses of /api/verify *)

MaxRequests == 2

\* the values of the email column: clean addresses (one with spaces and upper
\* case), a role-based address, a blank, a missing value
ColumnPool ==
    {Str(At(user, b_co)),
     Str(<<" ", "U">> \o <<"@">> \o <<"B", ".", "c", "o", " ">>),
     Str(At(info, b_co)),
     Str(<<" ">>),
     Undefined}

\* a column of n values: a clean address first and last, role-based ones between
LongColumn(n) ==
    [k \in 1..n |-> IF k \in {1, n} THEN Str(At(user, b_co)) ELSE Str(At(info, b_co))]

Columns ==
    ListsOver(ColumnPool, MaxBatch)
    \cup {LongColumn(c * requestSize + d) : c \in 1..MaxRequests, d \in {0, 1}}

\* what validateEmailSync returns for the values of the columns
syncResults == [e \in ColumnPool \ {Undefined} |-> validateEmailSync(e).value]

\* the results of the route for a request body: validateEmailSync per address,
\* pending results finalized with the value of the lookup of this request
serverResults(body, hasMXValue) ==
    [k \in 1..Len(body) |->
        IF isPending(syncResults[body[k]]) THEN finalize(syncResults[body[k]], hasMXValue)
        ELSE syncResults[body[k]]]

ClientInit ==
    /\ client = FreshPage
    /\ mxCache = <<>> /\ calls = <<>> /\ requests = <<>> /\ resolver = <<>> /\ legacy = <<>>
    /\ arg = Null /\ fn = "none" /\ ret = NoValue

clientFrame == <<mxCache, calls, requests, resolver, legacy, arg, fn, ret>>

\* handleFileSelect and Papa's complete callback: the upload section is shown
\* while the status is idle and no file is set
FileParsed(column, detected) ==
    /\ client.status = "idle" /\ ~client.file
    /\ client' = [client EXCEPT !.file = TRUE, !.originalData = column,
                                !.emailColumn = IF detected THEN "email" ELSE "",
                                !.results = <<>>, !.summary = NoClientSummary, !.error = "",
                                !.total = Len(column)]
    /\ UNCHANGED clientFrame

\* the select of the column section: setEmailColumn(e.target.value)
SelectColumn(name) ==
    /\ client.file /\ client.status = "idle" /\ ~client.summary.present
    /\ client.emailColumn # name
    /\ client' = [client EXCEPT !.emailColumn = name]
    /\ UNCHANGED clientFrame

\* the Start button: shown with the column section, disabled without a column
StartVerification ==
    /\ client.file /\ client.status = "idle" /\ ~client.summary.present
    /\ client.emailColumn # ""
    /\ client' = startVerification(client)
    /\ UNCHANGED clientFrame

\* fetch rejects: the request did not reach the server, or no response came
FetchRejects ==
    /\ client.pc = "fetch"
    /\ client' = onFailure(client, "Failed to fetch")
    /\ UNCHANGED clientFrame

\* a response arrives; response.ok decides which body is read
FetchResolves(ok) ==
    /\ client.pc = "fetch"
    /\ client' = [client EXCEPT !.pc = IF ok THEN "body" ELSE "errorBody"]
    /\ UNCHANGED clientFrame

\* the body of a response that is not ok: throw new Error(errorData.error ||
\* 'Verification failed'), or response.json() rejects
ErrorBodyRead(message) ==
    /\ client.pc = "errorBody"
    /\ client' = onFailure(client, message)
    /\ UNCHANGED clientFrame

\* response.json() of an ok response rejects
JsonRejects ==
    /\ client.pc = "body"
    /\ client' = onFailure(client, "Unexpected end of JSON input")
    /\ UNCHANGED clientFrame

\* response.json() of an ok response resolves with the route's results
JsonResolves(hasMXValue) ==
    /\ client.pc = "body"
    /\ client' = onData(client, serverResults(batchAt(client.emails, client.i), hasMXValue))
    /\ UNCHANGED clientFrame

\* a download button of the results section, shown while a summary is set
DownloadResults(filter) ==
    /\ client.summary.present
    /\ client.downloads = 0
    /\ client' = [client EXCEPT !.exported = downloadResults(client, filter),
                                !.filter = filter, !.downloads = 1]
    /\ UNCHANGED clientFrame

\* the button of the results section that starts over
ResetAll ==
    /\ client.summary.present
    /\ client' = FreshPage
    /\ UNCHANGED clientFrame

ClientNext ==
    \/ \E column \in Columns : \E detected \in BOOLEAN : FileParsed(column, detected)
    \/ \E name \in {"", "email"} : SelectColumn(name)
    \/ StartVerification
    \/ FetchRejects
    \/ \E ok \in BOOLEAN : FetchResolves(ok)
    \/ \E message \in {"Verification failed", "Unexpected end of JSON input"} : ErrorBodyRead(message)
    \/ JsonRejects
    \/ \E hasMXValue \in {"true", "false", "undefined"} : JsonResolves(hasMXValue)
    \/ \E filter \in {"none", "valid", "invalid", "risky"} : DownloadResults(filter)
    \/ ResetAll

ClientSpec == ClientInit /\ [][ClientNext]_vars

----------------------------------------------------------------------------
(* Claims about the page *)

\* C25: startVerification sends batches of at most 500 addresses, one at a
\* time and in list order; results and summary are published only after every
\* batch request succeeded; when a batch request fails the status becomes
\* 'error', the displayed results stay empty and nothing collected so far is
\* shown; and the status is 'complete' only with as many results as addresses
\* were sent.
C25_AllBatchesThenPublish ==
    /\ client.inFlight <= 1
    /\ Len(client.sent) = client.currentBatch + client.inFlight + (IF client.failed THEN 1 ELSE 0)
    /\ \A j \in 1..Len(client.sent) :
          /\ Len(client.sent[j]) \in 1..requestSize
          /\ j < Len(client.sent) => Len(client.sent[j]) = requestSize
          /\ \A k \in 1..Len(client.sent[j]) :
                client.sent[j][k] = client.emails[(j - 1) * requestSize + k]
    /\ client.results # <<>> \/ client.summary.present
          => /\ client.status = "complete" /\ ~client.failed
             /\ Len(client.sent) = client.totalBatches
             /\ client.currentBatch = client.totalBatches
    /\ client.failed
          => client.status = "error" /\ client.results = <<>> /\ ~client.summary.present
    /\ client.status = "complete"
          => /\ client.emails = filterKept(client.originalData)
             /\ Len(client.results) = Len(client.emails)
             /\ client.summary.total = Len(client.emails)
             /\ client.results = client.allResults

\* C25 witness: a column of 501 addresses went out in two requests, both
\* succeeded, and the page is complete with 501 results
C25_Witness ==
    /\ client.status = "complete"
    /\ Len(client.sent) = 2
    /\ Len(client.sent[2]) = 1
    /\ Len(client.results) = requestSize + 1
    /\ client.summary.present

\* the rows whose value was sent, in order: the k-th of them has the k-th result
sentRows ==
    SelectSeq([k \in 1..Len(client.originalData) |-> k],
              LAMBDA k : kept(client.originalData[k]))

\* C26: downloadResults exports every row whose email value was sent with the
\* status, reason and suggestion of that address's own result, never with
\* status 'unknown', also for values with surrounding whitespace or upper case.
C26_ExportHasOwnResult ==
    client.downloads = 1 /\ client.filter = "none" =>
        /\ Len(client.exported) = Len(client.originalData)
        /\ \A n \in 1..Len(sentRows) :
              LET row == client.exported[sentRows[n]]
                  own == client.results[n]
              IN  /\ row.verification_status # "unknown"
                  /\ row.verification_status = own.status
                  /\ row.verification_reason = own.reason
                  /\ row.suggestion = own.suggestion

====
